---- MODULE Spec2Model ----
(***************************************************************************)
(* A model of the three front-end controllers of the slide site:           *)
(*   ThemeManager  (src/public/js/theme.js)                                *)
(*   SlideIndex    (src/docs/js/index.js)                                  *)
(*   SlidefViewer  (src/docs/js/viewer.js)                                 *)
(* Each controller lives on its own page and shares no runtime state with  *)
(* the others: each specification below runs one controller and keeps the *)
(* other two parked.                                                       *)
(***************************************************************************)
EXTENDS Integers, Sequences, FiniteSets, TLC

VARIABLES
    \* ---- ThemeManager (theme.js) ----
    stored,         \* localStorage["slidef-theme"]: NoTheme, THEME_DARK or THEME_LIGHT
    currentTheme,   \* ThemeManager.currentTheme
    dataTheme,      \* <html data-theme="...">
    sunHidden,      \* .sun-icon has class "hidden"
    moonHidden,     \* .moon-icon has class "hidden"
    hasIcons,       \* both icons exist in the page
    osDark,         \* matchMedia("(prefers-color-scheme: dark)").matches
    themeLog        \* history: one record per event, the state it left behind

themeVars == <<stored, currentTheme, dataTheme, sunHidden, moonHidden, hasIcons,
               osDark, themeLog>>

VARIABLES
    \* ---- window.location and viewport ----
    urlPage,        \* `page` query value: NoParam, NaN (not a number) or an integer
    urlMode,        \* `mode` query value: "scroll" or "none"
    urlFrom,        \* `from` query value: "list" or "none"
    narrow,         \* window.innerWidth <= 768
    viewH,          \* scrollContainer.clientHeight
    \* ---- SlidefViewer fields ----
    vPhase,         \* "loading" (metadata fetch pending), "ready" or "failed"
    currentSlide,
    totalSlides,
    slideImages,
    wheelThrottleTimer,   \* TRUE while the 300 ms timer is pending
    hideControlsTimer,    \* TRUE once showControls() has stored a timer id
    hideTimers,     \* pending showControls timeouts: seconds left of each, oldest first
    wheelTimers,    \* number of pending wheel-throttle timeouts
    sinceMove,      \* seconds since the last mousemove, counted up to HideDelay
    \* ---- DOM ----
    slots,          \* slidePrev / slideCurrent / slideNext: src, display, loading class
    spinner,        \* slideLoading.style.display = "block"
    progress,       \* progressFill width as <<numerator, denominator>> percent
    navPrev,        \* navAreaPrev.style.display
    navNext,        \* navAreaNext.style.display
    docTitle,       \* slide number shown in document.title
    closeShown,     \* close button container displayed
    controlsVisible,\* body has class "controls-visible"
    scrollMode,     \* body has class "scroll-mode"
    slideIconHidden,\* .slide-mode-icon has class "hidden"
    scrollEls,      \* number of .scroll-slide images in the scroll container
    scrollLaidOut,  \* the scroll images that have their height (loaded / sized)
    scrollTop,      \* scrollContainer.scrollTop
    scrollListeners,\* "scroll" listeners registered on the scroll container
    overviewOpen,   \* overview modal lacks class "hidden"
    overviewActive, \* grid entry carrying class "active" (0: none / no grid)
    shareOpen,      \* share modal lacks class "hidden"
    shareRadio,     \* checked share-mode radio: "slide" or "scroll"
    shareLink,      \* shareLinkInput.value, as its query parameters
    shareEmbed,     \* src of the iframe in shareEmbedInput.value
    \* ---- history ----
    ev,             \* the last event handled
    req             \* the navigation that handler asked for: [op, n]

scrollVars == <<scrollMode, slideIconHidden, scrollEls, scrollLaidOut, scrollTop,
                scrollListeners>>
viewerVars == <<urlPage, urlMode, urlFrom, narrow, viewH, vPhase, currentSlide,
                totalSlides, slideImages, wheelThrottleTimer, hideControlsTimer,
                hideTimers, wheelTimers, sinceMove,
                slots, spinner, progress, navPrev, navNext, docTitle, closeShown,
                controlsVisible, scrollMode, slideIconHidden, scrollEls, scrollLaidOut,
                scrollTop, scrollListeners, overviewOpen, overviewActive, shareOpen,
                shareRadio, shareLink, shareEmbed, ev, req>>

VARIABLES
    \* ---- SlideIndex (index.js) ----
    idxPhase,       \* "probing", "loading", "ready" or "reloaded" (see init())
    isDevMode,
    isImporting,
    currentEditingSlide,
    srvDecks,       \* the decks the backend holds
    rendered,       \* the decks whose cards are in slidesContainer
    emptyShown,     \* emptyState lacks class "hidden"
    containerShown, \* slidesContainer lacks class "hidden"
    importBtnShown, \* importBtn lacks class "hidden"
    importModalOpen,
    importFormShown,
    importProgressShown,
    progressMessage,
    editModalOpen,
    imports,        \* handleImport() calls under way, by slot
    editReqs,       \* decks with a PUT under way
    deleteReqs,     \* decks with a DELETE under way
    listLoads,      \* loadSlides() calls under way: "init" and "reload" counts
    esOpen,         \* open EventSource channels
    reconnectTimers,\* pending 3 s reconnect timers
    reloadTimers,   \* pending 100 ms page-reload timers
    liveReloadOn,   \* the page asked for a live-reload channel at least once
    idxEv           \* history: the last event handled and what it did

indexVars == <<idxPhase, isDevMode, isImporting, currentEditingSlide, srvDecks, rendered,
               emptyShown, containerShown, importBtnShown, importModalOpen,
               importFormShown, importProgressShown, progressMessage, editModalOpen,
               imports, editReqs, deleteReqs, listLoads, esOpen, reconnectTimers,
               reloadTimers, liveReloadOn, idxEv>>

vars == <<themeVars, viewerVars, indexVars>>

(***************************************************************************)
(*                          ThemeManager                                   *)
(***************************************************************************)

\* Longest recorded history of theme events.
MaxThemeEvents == 4

THEME_DARK == "dark"
THEME_LIGHT == "light"
\* localStorage.getItem returns null: nothing persisted.
NoTheme == "none"

getSystemTheme(dark) == IF dark THEN THEME_DARK ELSE THEME_LIGHT

\* this.getStoredTheme() || this.getSystemTheme()
ResolveTheme(st, dark) == IF st # NoTheme THEN st ELSE getSystemTheme(dark)

\* updateIcons(): the new <<sunHidden, moonHidden>>
updateIcons(theme, icons, sun, moon) ==
    IF icons
    THEN IF theme = THEME_DARK THEN <<TRUE, FALSE>> ELSE <<FALSE, TRUE>>
    ELSE <<sun, moon>>

\* apply(): data-theme attribute and icons follow the given theme
apply(theme) ==
    /\ dataTheme' = theme
    /\ sunHidden' = updateIcons(theme, hasIcons, sunHidden, moonHidden)[1]
    /\ moonHidden' = updateIcons(theme, hasIcons, sunHidden, moonHidden)[2]

ThemeSnapshot(event, theme, data, st, dark) ==
    [ev |-> event, theme |-> theme, data |-> data, stored |-> st, os |-> dark]

\* State after `new ThemeManager()`.
InitTheme ==
    /\ stored \in {NoTheme, THEME_DARK, THEME_LIGHT}
    /\ osDark \in BOOLEAN
    /\ hasIcons \in BOOLEAN
    /\ currentTheme = ResolveTheme(stored, osDark)
    /\ dataTheme = currentTheme
    /\ sunHidden = updateIcons(currentTheme, hasIcons, FALSE, FALSE)[1]
    /\ moonHidden = updateIcons(currentTheme, hasIcons, FALSE, FALSE)[2]
    /\ themeLog = <<ThemeSnapshot("init", currentTheme, dataTheme, stored, osDark)>>

\* Mutant of FlipTheme: the toggle always selects dark.
FlipThemeStuck(theme) == THEME_DARK

\* the other theme: currentTheme === THEME_DARK ? THEME_LIGHT : THEME_DARK
FlipTheme(theme) == IF theme = THEME_DARK THEN THEME_LIGHT ELSE THEME_DARK

\* Mutant of ToggleStores: toggle() forgets to persist.
ToggleStoresNothing(theme, st) == st

\* setStoredTheme(this.currentTheme) inside toggle()
ToggleStores(theme, st) == theme

\* toggle()
toggle ==
    /\ Len(themeLog) < MaxThemeEvents
    /\ currentTheme' = FlipTheme(currentTheme)
    /\ stored' = ToggleStores(currentTheme', stored)
    /\ apply(currentTheme')
    /\ UNCHANGED <<hasIcons, osDark>>
    /\ themeLog' = Append(themeLog,
                     ThemeSnapshot("toggle", currentTheme', dataTheme', stored', osDark'))
    /\ UNCHANGED <<viewerVars, indexVars>>

\* Mutant of OsChangeApplies: the listener ignores the persisted choice.
OsChangeAlways(st) == TRUE

\* the listener's guard: !localStorage.getItem(THEME_KEY)
OsChangeApplies(st) == st = NoTheme

\* matchMedia(...) "change" listener; the event fires when the OS value flips
osChange ==
    /\ Len(themeLog) < MaxThemeEvents
    /\ osDark' = ~osDark
    /\ IF OsChangeApplies(stored)
       THEN /\ currentTheme' = getSystemTheme(osDark')
            /\ apply(currentTheme')
       ELSE UNCHANGED <<currentTheme, dataTheme, sunHidden, moonHidden>>
    /\ UNCHANGED <<stored, hasIcons>>
    /\ themeLog' = Append(themeLog,
                     ThemeSnapshot("osChange", currentTheme', dataTheme', stored', osDark'))
    /\ UNCHANGED <<viewerVars, indexVars>>

NextTheme == toggle \/ osChange


(***************************************************************************)
(*                     ThemeManager: checked claims                        *)
(***************************************************************************)

\* Events i of the log that are OS colour-scheme changes.
OsChangeSteps == {i \in 2..Len(themeLog) : themeLog[i].ev = "osChange"}

\* Events i of the log that are the second of two consecutive toggle() calls.
DoubleToggleSteps ==
    {i \in 3..Len(themeLog) : themeLog[i].ev = "toggle" /\ themeLog[i-1].ev = "toggle"}

\* C8: an OS colour-scheme change updates the applied theme exactly when
\* nothing is persisted: then the applied theme becomes the OS value and
\* nothing is persisted; with a persisted value, and so after any toggle(),
\* the applied theme is left as it was.
C8_OsChangeOnlyWithoutStored ==
    \A i \in OsChangeSteps :
        /\ themeLog[i-1].stored = NoTheme =>
              /\ themeLog[i].data = getSystemTheme(themeLog[i].os)
              /\ themeLog[i].data # themeLog[i-1].data
              /\ themeLog[i].stored = NoTheme
        /\ themeLog[i-1].stored # NoTheme => themeLog[i].data = themeLog[i-1].data
        /\ (\E j \in 1..(i-1) : themeLog[j].ev = "toggle") =>
              themeLog[i].data = themeLog[i-1].data

\* C8 witness: one OS change that switched the theme with nothing persisted,
\* and one OS change after a toggle().
C8_Witness ==
    /\ \E i \in OsChangeSteps : themeLog[i-1].stored = NoTheme
    /\ \E i \in OsChangeSteps : \E j \in 1..(i-1) : themeLog[j].ev = "toggle"

\* C9 as stated: two toggle() calls in a row restore the applied theme and
\* the persisted value, whatever the state they start from.
C9_DoubleToggleRestoresAll ==
    \A i \in DoubleToggleSteps :
        /\ themeLog[i].data = themeLog[i-2].data
        /\ themeLog[i].stored = themeLog[i-2].stored

\* C9 amended: two toggle() calls in a row restore the applied theme; the
\* persisted value is restored when there was one, and otherwise ends as the
\* original applied theme.
C9_DoubleToggleRestoresTheme ==
    \A i \in DoubleToggleSteps :
        /\ themeLog[i].data = themeLog[i-2].data
        /\ themeLog[i].theme = themeLog[i-2].theme
        /\ themeLog[i].stored =
              IF themeLog[i-2].stored # NoTheme
              THEN themeLog[i-2].stored
              ELSE themeLog[i-2].data

\* C9 witness: a double toggle from a state with nothing persisted, and one
\* from a state with a persisted value.
C9_Witness ==
    /\ \E i \in DoubleToggleSteps : themeLog[i-2].stored = NoTheme
    /\ \E i \in DoubleToggleSteps : themeLog[i-2].stored # NoTheme

(***************************************************************************)
(*                          SlidefViewer                                   *)
(***************************************************************************)

\* Largest pageCount a deck's metadata reports.
MaxPages == 3
\* Most "scroll" listeners registered (one more per entry into scroll mode).
MaxScrollListeners == 2

\* ---- JavaScript numbers: integers and NaN ----
\* parseInt of a text that is no number, and everything computed from it.
NaN == -1000
\* URLSearchParams.get returns null: the parameter is absent.
NoParam == -2000

JsMin(a, b) == IF a = NaN \/ b = NaN THEN NaN ELSE IF a < b THEN a ELSE b
JsMax(a, b) == IF a = NaN \/ b = NaN THEN NaN ELSE IF a > b THEN a ELSE b
JsLt(a, b) == a # NaN /\ b # NaN /\ a < b
JsGt(a, b) == a # NaN /\ b # NaN /\ a > b
JsEq(a, b) == a # NaN /\ b # NaN /\ a = b
JsAdd(a, k) == IF a = NaN THEN NaN ELSE a + k
JsMul(a, k) == IF a = NaN THEN NaN ELSE a * k

\* parseInt(params.get("page") || "1", 10)
ParsePage(raw) == IF raw = NoParam THEN 1 ELSE raw

\* `page` values a URL can carry: absent, not a number, and integers around the range
PageValues == {NoParam, NaN} \cup (-1..(MaxPages + 1))

\* ---- image paths ----
RECURSIVE ToDigits(_)
\* String(n) for n >= 0, as its decimal digits
ToDigits(n) == IF n < 10 THEN <<n>> ELSE Append(ToDigits(n \div 10), n % 10)

RECURSIVE PadStart(_, _)
\* digits.padStart(len, "0")
PadStart(digits, len) ==
    IF Len(digits) >= len THEN digits ELSE PadStart(<<0>> \o digits, len)

\* Mutant of FormatOf: a missing format is left missing.
FormatOfRaw(fmt) == fmt

\* metadata.format || "webp"
FormatOf(fmt) == IF fmt = "none" THEN "webp" ELSE fmt

\* `${baseUrl}/slides/${slideName}/images/slide-${pageNum}.${format}`
ImageUrl(i, fmt) == [num |-> PadStart(ToDigits(i), 3), format |-> FormatOf(fmt)]

\* Array.from({ length: totalSlides }, ...)
MakeSlideImages(n, fmt) == [i \in 1..n |-> ImageUrl(i, fmt)]

\* img.src before any assignment, and the result of reading past the array
NoSrc == [num |-> <<>>, format |-> "none"]
UndefinedSrc == [num |-> <<>>, format |-> "undefined"]

\* this.slideImages[k - 1] for a 1-based k
ImageAt(images, k) == IF k # NaN /\ k \in 1..Len(images) THEN images[k] ELSE UndefinedSrc

\* (currentSlide / totalSlides) * 100, kept exact as a fraction
ProgressOf(c, total) == <<JsMul(c, 100), total>>

NoReq == [op |-> "none", n |-> 0]
Req(op, n) == [op |-> op, n |-> n]

\* ---- scroll container geometry (heights in CSS pixels) ----
\* offsetHeight of a scroll image that has its height.
SlideH == 2
\* clientHeight of the scroll container: one slide high, or three.
ViewHeights == {2, 6}

ImgHeight(i, laid) == IF i \in laid THEN SlideH ELSE 0

RECURSIVE OffsetTop(_, _)
\* slide.offsetTop of the i-th stacked image
OffsetTop(i, laid) == IF i <= 1 THEN 0 ELSE OffsetTop(i - 1, laid) + ImgHeight(i - 1, laid)

\* scrollHeight - clientHeight, never negative
MaxScrollTop(n, laid, vh) ==
    LET content == OffsetTop(n + 1, laid)
    IN  IF content > vh THEN content - vh ELSE 0

Abs(x) == IF x < 0 THEN 0 - x ELSE x

\* 2 * Math.abs(slideCenter - centerY), doubled to stay in the integers
Distance2(i, laid, top, vh) ==
    Abs((2 * OffsetTop(i, laid) + ImgHeight(i, laid)) - (2 * top + vh))

RECURSIVE ClosestFrom(_, _, _, _, _, _, _)
\* the forEach of updateCurrentSlideFromScroll from element i on
ClosestFrom(i, n, laid, top, vh, best, bestDist) ==
    IF i > n THEN best
    ELSE IF bestDist < 0 \/ Distance2(i, laid, top, vh) < bestDist
         THEN ClosestFrom(i + 1, n, laid, top, vh, i, Distance2(i, laid, top, vh))
         ELSE ClosestFrom(i + 1, n, laid, top, vh, best, bestDist)

\* Mutant of ClosestSlide: the scroll position is not looked at.
ClosestSlideStale(n, laid, top, vh) == 1

\* updateCurrentSlideFromScroll(): closestSlide starts at 1, minDistance at
\* Infinity (here -1); a strictly smaller distance wins
ClosestSlide(n, laid, top, vh) == ClosestFrom(1, n, laid, top, vh, 1, -1)

\* scrollIntoView({ block: "center" }) on the i-th image: the resulting scrollTop
CenterTop(i, n, laid, vh) ==
    LET want == ((2 * OffsetTop(i, laid) + ImgHeight(i, laid)) - vh) \div 2
        most == MaxScrollTop(n, laid, vh)
    IN  IF want < 0 THEN 0 ELSE IF want > most THEN most ELSE want

\* scrollToCurrentSlide(): scrollTop of the freshly filled container
ScrollToCurrent(c, n, laid, vh) ==
    IF n > 0 /\ JsGt(c, 0) /\ c <= n THEN CenterTop(c, n, laid, vh) ELSE 0

\* ---- showSlide ----
\* Mutant of ClampSlide: wraps around instead of clamping.
ClampSlideWrap(n, total) ==
    IF n = NaN THEN NaN ELSE IF n < 1 THEN total ELSE IF n > total THEN 1 ELSE n

\* Mutant of ClampSlide: clamps one short of the last slide.
ClampSlideShort(n, total) == JsMax(1, JsMin(n, total - 1))

\* Math.max(1, Math.min(slideNumber, this.totalSlides))
ClampSlide(n, total) == JsMax(1, JsMin(n, total))

\* Mutant of UrlAfterShow: the URL is never rewritten.
UrlAfterShowNever(c, updateHistory, url) == url

\* url.searchParams.set("page", this.currentSlide) when updateHistory
UrlAfterShow(c, updateHistory, url) == IF updateHistory THEN c ELSE url

InitialSlot == [src |-> NoSrc, display |-> "", loading |-> FALSE]

\* showSlide() but for the URL: the slide, the three slots, the spinner, the
\* progress bar, the navigation areas and the title, for a deck of `total`
\* slides with image paths `images`
showSlideDom(slideNumber, total, images) ==
    LET c == ClampSlide(slideNumber, total)
    IN  /\ currentSlide' = c
        /\ spinner' = TRUE
        /\ slots' =
             [cur  |-> [src |-> ImageAt(images, c),
                        display |-> slots.cur.display, loading |-> TRUE],
              prev |-> IF JsGt(c, 1)
                       THEN [src |-> ImageAt(images, JsAdd(c, -1)),
                             display |-> "block", loading |-> TRUE]
                       ELSE [slots.prev EXCEPT !.display = "none"],
              next |-> IF JsLt(c, total)
                       THEN [src |-> ImageAt(images, JsAdd(c, 1)),
                             display |-> "block", loading |-> TRUE]
                       ELSE [slots.next EXCEPT !.display = "none"]]
        /\ progress' = ProgressOf(c, total)
        /\ navPrev' = IF JsEq(c, 1) THEN "none" ELSE "block"
        /\ navNext' = IF JsEq(c, total) THEN "none" ELSE "block"
        /\ docTitle' = c

\* showSlide(slideNumber, updateHistory), with the URL `page` value it starts from
showSlide(slideNumber, updateHistory, url) ==
    /\ showSlideDom(slideNumber, totalSlides, slideImages)
    /\ urlPage' = UrlAfterShow(currentSlide', updateHistory, url)

showVars == <<currentSlide, slots, spinner, progress, navPrev, navNext, urlPage, docTitle>>

\* goToSlide(slideNumber)
goToSlide(n) == showSlide(n, TRUE, urlPage)

\* previousSlide()
previousSlide ==
    IF JsGt(currentSlide, 1) THEN goToSlide(currentSlide - 1) ELSE UNCHANGED showVars

\* nextSlide()
nextSlide ==
    IF JsLt(currentSlide, totalSlides) THEN goToSlide(currentSlide + 1)
    ELSE UNCHANGED showVars

\* ---- scroll mode ----
\* enterScrollMode() for a deck of `total` slides with current slide c; `laid`
\* are the new images that have their height when scrollToCurrentSlide() runs
enterScrollMode(c, total, laid) ==
    /\ scrollEls' = total
    /\ scrollLaidOut' = laid
    /\ scrollListeners' = scrollListeners + 1
    /\ scrollTop' = ScrollToCurrent(c, total, laid, viewH)

\* Layouts a freshly filled scroll container can have: no image has its
\* height yet, or all have
FreshLayouts(n) == {{}, 1..n}

envVars == <<urlMode, urlFrom, narrow, viewH>>
metaVars == <<vPhase, totalSlides, slideImages>>
ctlVars == <<controlsVisible, hideControlsTimer, closeShown, hideTimers, sinceMove>>
wheelVars == <<wheelThrottleTimer, wheelTimers>>
overviewVars == <<overviewOpen, overviewActive>>
shareVars == <<shareOpen, shareRadio, shareLink, shareEmbed>>

\* the delay of the timeout in showControls(), in seconds
HideDelay == 3
\* timeouts of one kind that may be pending together
MaxPending == 2

\* Mutant of ClearHideTimer: the earlier timeout is left pending.
ClearHideTimerNever(field, timers) == timers

\* if (this.hideControlsTimer) clearTimeout(this.hideControlsTimer): the field
\* holds the id of the newest timeout, which is the last to come due
ClearHideTimer(field, timers) ==
    IF field /\ timers # <<>> THEN SubSeq(timers, 1, Len(timers) - 1) ELSE timers

\* showControls()
showControls ==
    /\ controlsVisible' = TRUE
    /\ hideTimers' = Append(ClearHideTimer(hideControlsTimer, hideTimers), HideDelay)
    /\ hideControlsTimer' = TRUE

NoShareLink == [page |-> NoParam, mode |-> "unset", from |-> "unset"]

\* State after `new SlidefViewer()`: the metadata request is outstanding.
InitViewerOn(pages, modes, froms, narrows, heights) ==
    /\ urlPage \in pages
    /\ urlMode \in modes
    /\ urlFrom \in froms
    /\ narrow \in narrows
    /\ viewH \in heights
    /\ vPhase = "loading"
    /\ currentSlide = ParsePage(urlPage)
    /\ totalSlides = 0
    /\ slideImages = <<>>
    /\ wheelThrottleTimer = FALSE
    /\ hideControlsTimer = FALSE
    /\ hideTimers = <<>>
    /\ wheelTimers = 0
    /\ sinceMove = HideDelay
    /\ slots = [prev |-> InitialSlot, cur |-> InitialSlot, next |-> InitialSlot]
    /\ spinner = FALSE
    /\ progress = <<0, 0>>
    /\ navPrev = ""
    /\ navNext = ""
    /\ docTitle = 0
    /\ closeShown = TRUE
    /\ controlsVisible = FALSE
    /\ scrollMode = FALSE
    /\ slideIconHidden = TRUE
    /\ scrollEls = 0
    /\ scrollLaidOut = {}
    /\ scrollTop = 0
    /\ scrollListeners = 0
    /\ overviewOpen = FALSE
    /\ overviewActive = 0
    /\ shareOpen = FALSE
    /\ shareRadio = "slide"
    /\ shareLink = NoShareLink
    /\ shareEmbed = NoShareLink
    /\ ev = "construct"
    /\ req = NoReq

\* every address and viewport the viewer can be opened with
InitViewer ==
    InitViewerOn(PageValues, {"none", "scroll"}, {"none", "list"}, BOOLEAN, ViewHeights)

\* init() after loadMetadata() resolved with { pageCount, format }:
\* setupEventListeners(), showSlide(), the URL fix, the initial mode, the close button
MetadataLoaded(pageCount, fmt, laid) ==
    /\ vPhase = "loading"
    /\ vPhase' = "ready"
    /\ totalSlides' = pageCount
    /\ slideImages' = MakeSlideImages(pageCount, fmt)
    /\ showControls
    /\ sinceMove' = sinceMove
    /\ showSlideDom(currentSlide, pageCount, slideImages')
    \* showSlide() sets `page`; the following if (!params.has("page")) sets it too
    /\ LET shown == UrlAfterShow(currentSlide', TRUE, urlPage)
       IN  urlPage' = IF shown = NoParam THEN currentSlide' ELSE shown
    \* toggleScrollMode() on a narrow viewport or with mode=scroll
    /\ IF narrow \/ urlMode = "scroll"
       THEN /\ scrollMode' = TRUE
            /\ slideIconHidden' = FALSE
            /\ enterScrollMode(currentSlide', pageCount, laid)
       ELSE /\ laid = {}
            /\ UNCHANGED scrollVars
    /\ closeShown' = (urlFrom = "list")
    /\ ev' = "metadataLoaded"
    /\ req' = Req("show", currentSlide)
    /\ UNCHANGED <<envVars, wheelVars, overviewVars, shareVars>>
    /\ UNCHANGED <<themeVars, indexVars>>

\* init() when loadMetadata() throws: the catch only logs
MetadataFailed ==
    /\ vPhase = "loading"
    /\ vPhase' = "failed"
    /\ ev' = "metadataFailed"
    /\ req' = NoReq
    /\ UNCHANGED <<showVars, envVars, totalSlides, slideImages, wheelVars,
                   ctlVars, scrollVars, overviewVars, shareVars>>
    /\ UNCHANGED <<themeVars, indexVars>>

Ready == vPhase = "ready"
NoModal == ~overviewOpen /\ ~shareOpen

PrevKeys == {"ArrowLeft", "ArrowUp", "PageUp"}
NextKeys == {"ArrowRight", "ArrowDown", "PageDown", " "}
Keys == {"Escape", "Home", "End", "a"} \cup PrevKeys \cup NextKeys

\* the Escape branch of handleKeyPress: a modal is open and gets closed
EscapeClosesModal(k) == k = "Escape" /\ ~NoModal

\* handleKeyPress(e)
handleKeyPress(k) ==
    /\ Ready
    /\ ev' = "keydown"
    /\ IF EscapeClosesModal(k)
       THEN /\ IF overviewOpen
               THEN overviewOpen' = FALSE /\ UNCHANGED <<overviewActive, shareVars>>
               ELSE shareOpen' = FALSE
                    /\ UNCHANGED <<overviewVars, shareRadio, shareLink, shareEmbed>>
            /\ req' = NoReq
            /\ UNCHANGED showVars
       ELSE /\ UNCHANGED <<overviewVars, shareVars>>
            /\ IF k \in PrevKeys THEN previousSlide /\ req' = Req("prev", 0)
               ELSE IF k \in NextKeys THEN nextSlide /\ req' = Req("next", 0)
               ELSE IF k = "Home" THEN goToSlide(1) /\ req' = Req("goTo", 1)
               ELSE IF k = "End"
                    THEN goToSlide(totalSlides) /\ req' = Req("goTo", totalSlides)
               ELSE UNCHANGED showVars /\ req' = NoReq
    /\ UNCHANGED <<envVars, metaVars, wheelVars, ctlVars, scrollVars>>
    /\ UNCHANGED <<themeVars, indexVars>>

\* Mutant of WheelThrottled: a pending timer does not stop the handler.
WheelThrottledNever(timer) == FALSE

\* the guard `if (this.wheelThrottleTimer) return`
WheelThrottled(timer) == timer

\* handleWheel(e) for a wheel event that reaches the document listener
handleWheel(deltaY) ==
    /\ Ready
    /\ NoModal
    /\ ev' = "wheel"
    /\ IF scrollMode \/ overviewOpen
       THEN UNCHANGED <<showVars, wheelVars>> /\ req' = NoReq
       ELSE IF WheelThrottled(wheelThrottleTimer)
       THEN UNCHANGED <<showVars, wheelVars>> /\ req' = NoReq
       ELSE /\ wheelTimers < MaxPending
            /\ wheelTimers' = wheelTimers + 1
            /\ wheelThrottleTimer' = TRUE
            /\ IF deltaY > 0 THEN nextSlide /\ req' = Req("next", 0)
               ELSE IF deltaY < 0 THEN previousSlide /\ req' = Req("prev", 0)
               ELSE UNCHANGED showVars /\ req' = NoReq
    /\ UNCHANGED <<envVars, metaVars, ctlVars, scrollVars, overviewVars, shareVars>>
    /\ UNCHANGED <<themeVars, indexVars>>

\* a wheel event over an open modal: its listener stops the propagation
WheelOnModal ==
    /\ Ready
    /\ ~NoModal
    /\ ev' = "wheelOnModal"
    /\ req' = NoReq
    /\ UNCHANGED <<showVars, envVars, metaVars, wheelVars, ctlVars, scrollVars,
                   overviewVars, shareVars>>
    /\ UNCHANGED <<themeVars, indexVars>>

\* the 300 ms wheel throttle timer fires
WheelTimerFires ==
    /\ wheelTimers > 0
    /\ wheelTimers' = wheelTimers - 1
    /\ wheelThrottleTimer' = FALSE
    /\ ev' = "wheelTimer"
    /\ req' = NoReq
    /\ UNCHANGED <<showVars, envVars, metaVars, ctlVars, scrollVars, overviewVars,
                   shareVars>>
    /\ UNCHANGED <<themeVars, indexVars>>

\* "mousemove" on the document: showControls()
MouseMove ==
    /\ Ready
    /\ Len(hideTimers) < MaxPending
    /\ showControls
    /\ sinceMove' = 0
    /\ ev' = "mousemove"
    /\ req' = NoReq
    /\ UNCHANGED <<showVars, envVars, metaVars, wheelVars, closeShown, scrollVars,
                   overviewVars, shareVars>>
    /\ UNCHANGED <<themeVars, indexVars>>

\* one second passes; a timeout that has come due may still fire later
Tick ==
    /\ Ready
    /\ hideTimers' = [i \in 1..Len(hideTimers) |->
                         IF hideTimers[i] > 0 THEN hideTimers[i] - 1 ELSE 0]
    /\ sinceMove' = IF sinceMove < HideDelay THEN sinceMove + 1 ELSE HideDelay
    /\ ev' = "tick"
    /\ req' = NoReq
    /\ UNCHANGED <<showVars, envVars, metaVars, wheelVars, controlsVisible,
                   hideControlsTimer, closeShown, scrollVars, overviewVars, shareVars>>
    /\ UNCHANGED <<themeVars, indexVars>>

\* the oldest showControls timeout has come due and runs its callback
HideControlsTimerFires ==
    /\ hideTimers # <<>>
    /\ Head(hideTimers) = 0
    /\ hideTimers' = Tail(hideTimers)
    /\ controlsVisible' = FALSE
    /\ ev' = "hideTimer"
    /\ req' = NoReq
    /\ UNCHANGED <<showVars, envVars, metaVars, wheelVars, hideControlsTimer, closeShown,
                   sinceMove, scrollVars, overviewVars, shareVars>>
    /\ UNCHANGED <<themeVars, indexVars>>

\* click on navAreaPrev (dir = -1) or navAreaNext (dir = 1), when it is displayed
NavAreaClick(dir) ==
    /\ Ready
    /\ NoModal
    /\ ~scrollMode
    /\ IF dir < 0 THEN navPrev = "block" ELSE navNext = "block"
    /\ ev' = "navClick"
    /\ IF dir < 0 THEN previousSlide /\ req' = Req("prev", 0)
       ELSE nextSlide /\ req' = Req("next", 0)
    /\ UNCHANGED <<envVars, metaVars, wheelVars, ctlVars, scrollVars,
                   overviewVars, shareVars>>
    /\ UNCHANGED <<themeVars, indexVars>>

\* Width of the progress bar in pixels (click positions 0..BarWidth).
BarWidth == 4

\* Math.ceil(num / den) for num >= 0, den > 0
CeilDiv(num, den) == (num + den - 1) \div den

\* Mutant of ProgressTarget: rounds down instead of up.
ProgressTargetFloor(x, width, total) == JsMax(1, JsMin(total, (x * total) \div width))

\* Mutant of ProgressTarget: the result is not clamped.
ProgressTargetUnclamped(x, width, total) == CeilDiv(x * total, width)

\* Math.max(1, Math.min(totalSlides, Math.ceil((x / width) * totalSlides)))
ProgressTarget(x, width, total) == JsMax(1, JsMin(total, CeilDiv(x * total, width)))

\* handleProgressClick(e) at x pixels from the bar's left edge
handleProgressClick(x) ==
    /\ Ready
    /\ NoModal
    /\ ev' = "progressClick"
    /\ req' = Req("goTo", ProgressTarget(x, BarWidth, totalSlides))
    /\ goToSlide(ProgressTarget(x, BarWidth, totalSlides))
    /\ UNCHANGED <<envVars, metaVars, wheelVars, ctlVars, scrollVars,
                   overviewVars, shareVars>>
    /\ UNCHANGED <<themeVars, indexVars>>

\* "popstate": the browser restored a history entry whose `page` value is p
Popstate(p) ==
    /\ Ready
    /\ ev' = "popstate"
    /\ req' = Req("show", ParsePage(p))
    /\ showSlide(ParsePage(p), FALSE, p)
    /\ UNCHANGED <<envVars, metaVars, wheelVars, ctlVars, scrollVars,
                   overviewVars, shareVars>>
    /\ UNCHANGED <<themeVars, indexVars>>

\* toggleScrollMode() from the toolbar button
toggleScrollMode(laid) ==
    /\ Ready
    /\ NoModal
    /\ ev' = "toggleScrollMode"
    /\ scrollMode' = ~scrollMode
    /\ IF scrollMode'
       THEN \* enterScrollMode()
            /\ scrollListeners < MaxScrollListeners
            /\ laid \in FreshLayouts(totalSlides)
            /\ slideIconHidden' = FALSE
            /\ enterScrollMode(currentSlide, totalSlides, laid)
            /\ req' = NoReq
            /\ UNCHANGED showVars
       ELSE \* exitScrollMode(): updateCurrentSlideFromScroll(), hide the
            \* container, removeEventListener with a new closure (removes
            \* nothing), showSlide(this.currentSlide, true)
            /\ laid = {}
            /\ slideIconHidden' = TRUE
            /\ req' = Req("show", ClosestSlide(scrollEls, scrollLaidOut, scrollTop, viewH))
            /\ showSlide(ClosestSlide(scrollEls, scrollLaidOut, scrollTop, viewH),
                         TRUE, urlPage)
            /\ scrollLaidOut' = {}
            /\ scrollTop' = 0
            /\ UNCHANGED <<scrollEls, scrollListeners>>
    /\ UNCHANGED <<envVars, metaVars, wheelVars, ctlVars, overviewVars, shareVars>>
    /\ UNCHANGED <<themeVars, indexVars>>

\* "scroll" on the visible scroll container, now at scrollTop = top:
\* updateScrollProgress() (every registered listener computes the same);
\* it rewrites the slide and the progress bar, not window.location
ScrollEvent(top) ==
    /\ Ready
    /\ scrollMode
    /\ scrollListeners > 0
    /\ top \in 0..MaxScrollTop(scrollEls, scrollLaidOut, viewH)
    /\ ev' = "scroll"
    /\ req' = NoReq
    /\ scrollTop' = top
    /\ currentSlide' = ClosestSlide(scrollEls, scrollLaidOut, top, viewH)
    /\ progress' = ProgressOf(currentSlide', totalSlides)
    /\ UNCHANGED <<urlPage, slots, spinner, navPrev, navNext, docTitle, envVars, metaVars,
                   wheelVars, ctlVars, scrollMode, slideIconHidden, scrollEls,
                   scrollLaidOut, scrollListeners, overviewVars, shareVars>>
    /\ UNCHANGED <<themeVars, indexVars>>

\* a lazily loaded scroll image gets its height; no handler of the viewer runs
ScrollImageLaidOut(i) ==
    /\ Ready
    /\ scrollMode
    /\ i \in (1..scrollEls) \ scrollLaidOut
    /\ scrollLaidOut' = scrollLaidOut \cup {i}
    /\ ev' = "scrollImageLoad"
    /\ req' = NoReq
    /\ UNCHANGED <<showVars, envVars, metaVars, wheelVars, ctlVars, scrollMode,
                   slideIconHidden, scrollEls, scrollTop, scrollListeners, overviewVars,
                   shareVars>>
    /\ UNCHANGED <<themeVars, indexVars>>

\* openOverviewModal(): the grid is rebuilt, the current slide's entry is "active"
openOverviewModal ==
    /\ Ready
    /\ NoModal
    /\ overviewActive' = IF currentSlide # NaN /\ currentSlide \in 1..totalSlides
                         THEN currentSlide ELSE 0
    /\ overviewOpen' = TRUE
    /\ ev' = "openOverview"
    /\ req' = NoReq
    /\ UNCHANGED <<showVars, envVars, metaVars, wheelVars, ctlVars, scrollVars,
                   shareVars>>
    /\ UNCHANGED <<themeVars, indexVars>>

\* closeOverviewModal() from its close button
closeOverviewModal ==
    /\ overviewOpen
    /\ overviewOpen' = FALSE
    /\ ev' = "closeOverview"
    /\ req' = NoReq
    /\ UNCHANGED <<showVars, envVars, metaVars, wheelVars, ctlVars, scrollVars,
                   overviewActive, shareVars>>
    /\ UNCHANGED <<themeVars, indexVars>>

\* click on the i-th entry of the overview grid: goToSlide(i), closeOverviewModal()
OverviewSlideClick(i) ==
    /\ overviewOpen
    /\ i \in 1..totalSlides
    /\ goToSlide(i)
    /\ overviewOpen' = FALSE
    /\ ev' = "overviewClick"
    /\ req' = Req("goTo", i)
    /\ UNCHANGED <<envVars, metaVars, wheelVars, ctlVars, scrollVars,
                   overviewActive, shareVars>>
    /\ UNCHANGED <<themeVars, indexVars>>

\* Mutant of ShareUrl: the selected option is ignored.
ShareUrlAlwaysPaged(page, radio) == [page |-> page, mode |-> "none", from |-> "none"]

\* updateShareURLs(): window.location without `from`, with `mode` as selected
ShareUrl(page, radio) ==
    [page |-> page, mode |-> IF radio = "scroll" THEN "scroll" ELSE "none", from |-> "none"]

\* openShareModal()
openShareModal ==
    /\ Ready
    /\ NoModal
    /\ shareLink' = ShareUrl(urlPage, shareRadio)
    /\ shareEmbed' = shareLink'
    /\ shareOpen' = TRUE
    /\ ev' = "openShare"
    /\ req' = NoReq
    /\ UNCHANGED <<showVars, envVars, metaVars, wheelVars, ctlVars, scrollVars,
                   overviewVars, shareRadio>>
    /\ UNCHANGED <<themeVars, indexVars>>

\* "change" on a share-mode radio button: updateShareURLs()
ShareModeChange(radio) ==
    /\ shareOpen
    /\ radio # shareRadio
    /\ shareRadio' = radio
    /\ shareLink' = ShareUrl(urlPage, radio)
    /\ shareEmbed' = shareLink'
    /\ ev' = "shareMode"
    /\ req' = NoReq
    /\ UNCHANGED <<showVars, envVars, metaVars, wheelVars, ctlVars, scrollVars,
                   overviewVars, shareOpen>>
    /\ UNCHANGED <<themeVars, indexVars>>

\* closeShareModal() from its close button or a click on the backdrop
closeShareModal ==
    /\ shareOpen
    /\ shareOpen' = FALSE
    /\ ev' = "closeShare"
    /\ req' = NoReq
    /\ UNCHANGED <<showVars, envVars, metaVars, wheelVars, ctlVars, scrollVars,
                   overviewVars, shareRadio, shareLink, shareEmbed>>
    /\ UNCHANGED <<themeVars, indexVars>>

\* Mutant of AnyLoading: the check always finds an image loading.
AnyLoadingAlways(sl) == TRUE

\* checkAllImagesLoaded(): some slot has class "loading" and a src
AnyLoading(sl) == \E x \in {"prev", "cur", "next"} : sl[x].loading /\ sl[x].src # NoSrc

\* "load" or "error" on a slot image whose request is outstanding (every
\* assignment of src ends in exactly one of the two): the slot loses class
\* "loading", then checkAllImagesLoaded()
SlotSettled(x, kind) ==
    /\ slots[x].loading
    /\ slots' = [slots EXCEPT ![x].loading = FALSE]
    /\ spinner' = IF AnyLoading(slots') THEN spinner ELSE FALSE
    /\ ev' = kind
    /\ req' = NoReq
    /\ UNCHANGED <<currentSlide, progress, navPrev, navNext, urlPage, docTitle, envVars,
                   metaVars, wheelVars, ctlVars, scrollVars, overviewVars,
                   shareVars>>
    /\ UNCHANGED <<themeVars, indexVars>>

\* the address in the share link input is opened: a new SlidefViewer is
\* constructed on that address, on a viewport that may differ
OpenShareLink(narrowNew) ==
    /\ shareLink # NoShareLink
    /\ urlPage' = shareLink.page
    /\ urlMode' = shareLink.mode
    /\ urlFrom' = shareLink.from
    /\ narrow' = narrowNew
    /\ vPhase' = "loading"
    /\ currentSlide' = ParsePage(shareLink.page)
    /\ totalSlides' = 0
    /\ slideImages' = <<>>
    /\ wheelThrottleTimer' = FALSE
    /\ hideControlsTimer' = FALSE
    /\ hideTimers' = <<>>
    /\ wheelTimers' = 0
    /\ sinceMove' = HideDelay
    /\ slots' = [prev |-> InitialSlot, cur |-> InitialSlot, next |-> InitialSlot]
    /\ spinner' = FALSE
    /\ progress' = <<0, 0>>
    /\ navPrev' = ""
    /\ navNext' = ""
    /\ docTitle' = 0
    /\ closeShown' = TRUE
    /\ controlsVisible' = FALSE
    /\ scrollMode' = FALSE
    /\ slideIconHidden' = TRUE
    /\ scrollEls' = 0
    /\ scrollLaidOut' = {}
    /\ scrollTop' = 0
    /\ scrollListeners' = 0
    /\ overviewOpen' = FALSE
    /\ overviewActive' = 0
    /\ shareOpen' = FALSE
    /\ shareRadio' = "slide"
    /\ shareLink' = NoShareLink
    /\ shareEmbed' = NoShareLink
    /\ ev' = "openShareLink"
    /\ req' = NoReq
    /\ UNCHANGED viewH
    /\ UNCHANGED <<themeVars, indexVars>>

\* The theme controller of a page on which nothing touches the theme.
ParkedTheme ==
    /\ stored = NoTheme
    /\ osDark = FALSE
    /\ hasIcons = FALSE
    /\ currentTheme = THEME_LIGHT
    /\ dataTheme = THEME_LIGHT
    /\ sunHidden = FALSE
    /\ moonHidden = FALSE
    /\ themeLog = <<>>

\* No viewer on this page.
ParkedViewer ==
    /\ urlPage = NoParam
    /\ urlMode = "none"
    /\ urlFrom = "none"
    /\ narrow = FALSE
    /\ viewH = 0
    /\ vPhase = "absent"
    /\ currentSlide = 0
    /\ totalSlides = 0
    /\ slideImages = <<>>
    /\ wheelThrottleTimer = FALSE
    /\ hideControlsTimer = FALSE
    /\ hideTimers = <<>>
    /\ wheelTimers = 0
    /\ sinceMove = HideDelay
    /\ slots = [prev |-> InitialSlot, cur |-> InitialSlot, next |-> InitialSlot]
    /\ spinner = FALSE
    /\ progress = <<0, 0>>
    /\ navPrev = ""
    /\ navNext = ""
    /\ docTitle = 0
    /\ closeShown = FALSE
    /\ controlsVisible = FALSE
    /\ scrollMode = FALSE
    /\ slideIconHidden = FALSE
    /\ scrollEls = 0
    /\ scrollLaidOut = {}
    /\ scrollTop = 0
    /\ scrollListeners = 0
    /\ overviewOpen = FALSE
    /\ overviewActive = 0
    /\ shareOpen = FALSE
    /\ shareRadio = "slide"
    /\ shareLink = NoShareLink
    /\ shareEmbed = NoShareLink
    /\ ev = "none"
    /\ req = NoReq


(***************************************************************************)
(*                            SlideIndex                                   *)
(***************************************************************************)

\* Deck names are 1..MaxDecks.
MaxDecks == 2
\* handleImport() calls that can be under way at once.
MaxImports == 2
\* Management requests and list reloads under way at once.
MaxInFlight == 2
\* Pending 100 ms page-reload timers.
MaxReloadTimers == 2

Decks == 1..MaxDecks
\* this.currentEditingSlide = null
NoDeck == 0

IdleImport == [st |-> "idle", before |-> {}]
ActiveImports == {i \in 1..MaxImports : imports[i].st # "idle"}
\* imports whose POST /api/import has not been answered yet
PostingImports == {i \in 1..MaxImports : imports[i].st = "posting"}
FreeImportSlots == {i \in 1..MaxImports : imports[i].st = "idle"}
InFlight ==
    Cardinality(ActiveImports) + Cardinality(editReqs) + Cardinality(deleteReqs)
        + listLoads.reload

\* no list: window.__SLIDES_DATA__ is undefined / nothing was rendered
NoData == {NoDeck}

IdxEvent(type) ==
    [type |-> type, op |-> "none", failed |-> FALSE, alert |-> FALSE,
     newDeck |-> FALSE, posting |-> 0, deck |-> NoDeck, confirmed |-> FALSE,
     data |-> {NoDeck}, list |-> {NoDeck}]

\* State after `new SlideIndex()`: init() awaits the probe of /api/slides.
InitIndex ==
    /\ idxPhase = "probing"
    /\ isDevMode = FALSE
    /\ isImporting = FALSE
    /\ currentEditingSlide = NoDeck
    /\ srvDecks \in {{}, {1}}
    /\ rendered = {}
    /\ emptyShown = FALSE
    /\ containerShown = FALSE
    /\ importBtnShown = FALSE
    /\ importModalOpen = FALSE
    /\ importFormShown = TRUE
    /\ importProgressShown = FALSE
    /\ progressMessage = ""
    /\ editModalOpen = FALSE
    /\ imports = [i \in 1..MaxImports |-> IdleImport]
    /\ editReqs = {}
    /\ deleteReqs = {}
    /\ listLoads = [init |-> 0, reload |-> 0]
    /\ esOpen = 0
    /\ reconnectTimers = 0
    /\ reloadTimers = 0
    /\ liveReloadOn = FALSE
    /\ idxEv = IdxEvent("construct")

\* No slide index on this page.
ParkedIndex ==
    /\ idxPhase = "absent"
    /\ isDevMode = FALSE
    /\ isImporting = FALSE
    /\ currentEditingSlide = NoDeck
    /\ srvDecks = {}
    /\ rendered = {}
    /\ emptyShown = FALSE
    /\ containerShown = FALSE
    /\ importBtnShown = FALSE
    /\ importModalOpen = FALSE
    /\ importFormShown = TRUE
    /\ importProgressShown = FALSE
    /\ progressMessage = ""
    /\ editModalOpen = FALSE
    /\ imports = [i \in 1..MaxImports |-> IdleImport]
    /\ editReqs = {}
    /\ deleteReqs = {}
    /\ listLoads = [init |-> 0, reload |-> 0]
    /\ esOpen = 0
    /\ reconnectTimers = 0
    /\ reloadTimers = 0
    /\ liveReloadOn = FALSE
    /\ idxEv = IdxEvent("none")

listDom == <<rendered, emptyShown, containerShown>>
importDom == <<importModalOpen, importFormShown, importProgressShown, progressMessage>>
editDom == <<editModalOpen, currentEditingSlide>>
liveVars == <<esOpen, reconnectTimers, reloadTimers, liveReloadOn>>

\* renderSlides(slides): an empty list only swaps to the empty state (the old
\* cards stay in the hidden container)
renderSlides(list) ==
    IF list = {}
    THEN /\ emptyShown' = TRUE
         /\ containerShown' = FALSE
         /\ UNCHANGED rendered
    ELSE /\ emptyShown' = FALSE
         /\ containerShown' = TRUE
         /\ rendered' = list

\* showEmptyState()
showEmptyState ==
    /\ emptyShown' = TRUE
    /\ containerShown' = FALSE
    /\ UNCHANGED rendered

\* Mutant of DevPage: the management listeners and buttons exist in static mode too.
DevPageAlways == idxPhase \in {"loading", "ready"}

\* the page is alive and its listeners are bound (setupEventListeners ran in dev mode)
DevPage == idxPhase \in {"loading", "ready"} /\ isDevMode
NoIndexModal == ~importModalOpen /\ ~editModalOpen

\* Mutant of StaticSlides: the embedded data is ignored.
StaticSlidesIgnoresEmbedded(embedded, result, indexList) ==
    IF result = "ok" THEN indexList ELSE {}

\* loadSlides() in static mode: window.__SLIDES_DATA__.slides, else the slides
\* of slides-index.json when its fetch succeeded, else []
StaticSlides(embedded, result, indexList) ==
    IF embedded # NoData THEN embedded
    ELSE IF result = "ok" THEN indexList
    ELSE {}

\* init() once detectDevMode() settled: `probe` is the outcome of GET /api/slides,
\* `embedded` the slides of window.__SLIDES_DATA__ (or NoData)
ProbeDone(probe, embedded) ==
    /\ idxPhase = "probing"
    /\ isDevMode' = (probe = "ok")
    /\ importBtnShown' = (probe = "ok")
    /\ IF probe = "ok"
       THEN \* connectLiveReload(); loadSlides() fetches /api/slides
            /\ embedded = NoData
            /\ esOpen' = 1
            /\ liveReloadOn' = TRUE
            /\ listLoads' = [listLoads EXCEPT !.init = 1]
            /\ idxPhase' = "loading"
            /\ UNCHANGED listDom
       ELSE /\ UNCHANGED <<esOpen, liveReloadOn>>
            /\ IF embedded # NoData
               THEN \* loadSlides() returns window.__SLIDES_DATA__.slides
                    /\ renderSlides(StaticSlides(embedded, "none", {}))
                    /\ idxPhase' = "ready"
                    /\ UNCHANGED listLoads
               ELSE \* loadSlides() fetches slides-index.json
                    /\ listLoads' = [listLoads EXCEPT !.init = 1]
                    /\ idxPhase' = "loading"
                    /\ UNCHANGED listDom
    /\ idxEv' = [IdxEvent("probeDone") EXCEPT
                    !.failed = (probe # "ok"), !.data = embedded,
                    !.list = IF probe # "ok" /\ embedded # NoData
                             THEN StaticSlides(embedded, "none", {}) ELSE NoData]
    /\ UNCHANGED <<isImporting, srvDecks, importDom, editDom, imports, editReqs,
                   deleteReqs, reconnectTimers, reloadTimers>>
    /\ UNCHANGED <<themeVars, viewerVars>>

\* init() once its loadSlides() settled. Dev mode: the list of the backend, or
\* a throw (caught by init: empty state). Static mode: the slides of
\* slides-index.json, or [] when the fetch fails
InitLoadDone(result, staticList) ==
    /\ idxPhase = "loading"
    /\ listLoads.init = 1
    /\ listLoads' = [listLoads EXCEPT !.init = 0]
    /\ idxPhase' = "ready"
    /\ IF isDevMode
       THEN /\ staticList = {}
            /\ IF result = "ok" THEN renderSlides(srvDecks) ELSE showEmptyState
       ELSE /\ result # "ok" => staticList = {}
            /\ renderSlides(StaticSlides(NoData, result, staticList))
    /\ idxEv' = [IdxEvent("initLoadDone") EXCEPT
                    !.failed = (result # "ok"), !.data = staticList,
                    !.list = IF isDevMode
                             THEN (IF result = "ok" THEN srvDecks ELSE {})
                             ELSE StaticSlides(NoData, result, staticList)]
    /\ UNCHANGED <<isDevMode, isImporting, srvDecks, importBtnShown, importDom, editDom,
                   imports, editReqs, deleteReqs, liveVars>>
    /\ UNCHANGED <<themeVars, viewerVars>>

\* reloadSlides() once its loadSlides() settled; a failure is only logged
ReloadDone(result) ==
    /\ DevPage
    /\ listLoads.reload > 0
    /\ listLoads' = [listLoads EXCEPT !.reload = @ - 1]
    /\ IF result = "ok" THEN renderSlides(srvDecks) ELSE UNCHANGED listDom
    /\ idxEv' = [IdxEvent("reloadDone") EXCEPT
                    !.failed = (result # "ok"),
                    !.list = IF result = "ok" THEN srvDecks ELSE NoData]
    /\ UNCHANGED <<idxPhase, isDevMode, isImporting, srvDecks, importBtnShown, importDom,
                   editDom, imports, editReqs, deleteReqs, liveVars>>
    /\ UNCHANGED <<themeVars, viewerVars>>

\* ---- import ----
\* openImportModal() from the import button
openImportModal ==
    /\ DevPage
    /\ importBtnShown
    /\ NoIndexModal
    /\ importModalOpen' = TRUE
    /\ importFormShown' = TRUE
    /\ importProgressShown' = FALSE
    /\ idxEv' = IdxEvent("openImport")
    /\ UNCHANGED <<idxPhase, isDevMode, isImporting, srvDecks, listDom, importBtnShown,
                   progressMessage, editDom, imports, editReqs, deleteReqs, listLoads,
                   liveVars>>
    /\ UNCHANGED <<themeVars, viewerVars>>

\* closeImportModal() from the close button, the cancel button or the backdrop
closeImportModal ==
    /\ DevPage
    /\ importModalOpen
    /\ importModalOpen' = FALSE
    /\ idxEv' = IdxEvent("closeImport")
    /\ UNCHANGED <<idxPhase, isDevMode, isImporting, srvDecks, listDom, importBtnShown,
                   importFormShown, importProgressShown, progressMessage, editDom,
                   imports, editReqs, deleteReqs, listLoads, liveVars>>
    /\ UNCHANGED <<themeVars, viewerVars>>

\* Mutant of ImportSetsFlag: handleImport() does not raise isImporting.
ImportSetsFlagNever(flag) == flag

\* this.isImporting = true at the start of handleImport()
ImportSetsFlag(flag) == TRUE

\* handleImport() up to its await of POST /api/import
SubmitImport ==
    /\ DevPage
    /\ importModalOpen
    /\ importFormShown
    /\ FreeImportSlots # {}
    /\ InFlight < MaxInFlight
    /\ LET slot == CHOOSE i \in FreeImportSlots : \A j \in FreeImportSlots : i <= j
       IN  imports' = [imports EXCEPT ![slot] = [st |-> "posting", before |-> srvDecks]]
    /\ importFormShown' = FALSE
    /\ importProgressShown' = TRUE
    /\ progressMessage' = "Importing PDF..."
    /\ isImporting' = ImportSetsFlag(isImporting)
    /\ idxEv' = [IdxEvent("submitImport") EXCEPT !.op = "import"]
    /\ UNCHANGED <<idxPhase, isDevMode, srvDecks, listDom, importBtnShown,
                   importModalOpen, editDom, editReqs, deleteReqs, listLoads, liveVars>>
    /\ UNCHANGED <<themeVars, viewerVars>>

\* the deck an import creates on the backend
NewDeck == CHOOSE d \in Decks \ srvDecks : \A e \in Decks \ srvDecks : d <= e

\* handleImport() once POST /api/import settled. outcome "ok": the deck was
\* created and the response is a success; "lost": the deck was created but
\* the response was rejected or unreadable; "error": nothing was created and
\* the request was rejected or answered with a non-success status
ImportResponse(slot, outcome) ==
    /\ DevPage
    /\ imports[slot].st = "posting"
    /\ IF outcome = "error" THEN UNCHANGED srvDecks
       ELSE /\ Decks \ srvDecks # {}
            /\ srvDecks' = srvDecks \cup {NewDeck}
    /\ IF outcome = "ok"
       THEN /\ progressMessage' = "Import successful!"
            /\ isImporting' = FALSE
            /\ imports' = [imports EXCEPT ![slot].st = "okTimer"]
       ELSE /\ progressMessage' = "Checking import status..."
            /\ UNCHANGED isImporting
            /\ imports' = [imports EXCEPT ![slot].st = "failTimer"]
    /\ idxEv' = [IdxEvent("importResponse") EXCEPT !.op = "import",
                                                   !.failed = (outcome # "ok")]
    /\ UNCHANGED <<idxPhase, isDevMode, listDom, importBtnShown, importModalOpen,
                   importFormShown, importProgressShown, editDom, editReqs, deleteReqs,
                   listLoads, liveVars>>
    /\ UNCHANGED <<themeVars, viewerVars>>

\* the 1 s timer of the success path: closeImportModal(), reloadSlides()
ImportOkTimer(slot) ==
    /\ DevPage
    /\ imports[slot].st = "okTimer"
    /\ imports' = [imports EXCEPT ![slot] = IdleImport]
    /\ importModalOpen' = FALSE
    /\ listLoads' = [listLoads EXCEPT !.reload = @ + 1]
    /\ idxEv' = [IdxEvent("importDone") EXCEPT !.op = "import"]
    /\ UNCHANGED <<idxPhase, isDevMode, isImporting, srvDecks, listDom, importBtnShown,
                   importFormShown, importProgressShown, progressMessage, editDom,
                   editReqs, deleteReqs, liveVars>>
    /\ UNCHANGED <<themeVars, viewerVars>>

\* the 1 s timer of the failure path: the re-poll loadSlides() starts
ImportFailTimer(slot) ==
    /\ DevPage
    /\ imports[slot].st = "failTimer"
    /\ imports' = [imports EXCEPT ![slot].st = "repoll"]
    /\ idxEv' = [IdxEvent("importRepoll") EXCEPT !.op = "import"]
    /\ UNCHANGED <<idxPhase, isDevMode, isImporting, srvDecks, listDom, importBtnShown,
                   importDom, editDom, editReqs, deleteReqs, listLoads, liveVars>>
    /\ UNCHANGED <<themeVars, viewerVars>>

\* Mutant of RepollAlerts: the failure path never alerts.
RepollAlertsNever(result) == FALSE

\* the re-poll's inner catch: alert only when loadSlides() itself failed
RepollAlerts(result) == result # "ok"

\* the failure path once its re-poll settled: render and close, or alert and
\* show the form again; then this.isImporting = false
ImportRepollDone(slot, result) ==
    /\ DevPage
    /\ imports[slot].st = "repoll"
    /\ imports' = [imports EXCEPT ![slot] = IdleImport]
    /\ IF RepollAlerts(result)
       THEN /\ importFormShown' = TRUE
            /\ importProgressShown' = FALSE
            /\ UNCHANGED <<importModalOpen, listDom>>
       ELSE /\ renderSlides(srvDecks)
            /\ importModalOpen' = FALSE
            /\ UNCHANGED <<importFormShown, importProgressShown>>
    /\ isImporting' = FALSE
    /\ idxEv' = [IdxEvent("importSettled") EXCEPT
                    !.op = "import", !.failed = TRUE, !.alert = RepollAlerts(result),
                    !.newDeck = (result = "ok" /\ srvDecks \ imports[slot].before # {})]
    /\ UNCHANGED <<idxPhase, isDevMode, srvDecks, importBtnShown, progressMessage,
                   editDom, editReqs, deleteReqs, listLoads, liveVars>>
    /\ UNCHANGED <<themeVars, viewerVars>>

\* ---- edit ----
\* the cards of the list can be clicked
CardsShown == containerShown /\ NoIndexModal

\* handleEditSlide(slide) from a card's edit button
handleEditSlide(d) ==
    /\ DevPage
    /\ CardsShown
    /\ d \in rendered
    /\ currentEditingSlide' = d
    /\ editModalOpen' = TRUE
    /\ idxEv' = [IdxEvent("openEdit") EXCEPT !.deck = d]
    /\ UNCHANGED <<idxPhase, isDevMode, isImporting, srvDecks, listDom, importBtnShown,
                   importDom, imports, editReqs, deleteReqs, listLoads, liveVars>>
    /\ UNCHANGED <<themeVars, viewerVars>>

\* closeEditModal() from the close button, the cancel button or the backdrop
closeEditModal ==
    /\ DevPage
    /\ editModalOpen
    /\ editModalOpen' = FALSE
    /\ currentEditingSlide' = NoDeck
    /\ idxEv' = IdxEvent("closeEdit")
    /\ UNCHANGED <<idxPhase, isDevMode, isImporting, srvDecks, listDom, importBtnShown,
                   importDom, imports, editReqs, deleteReqs, listLoads, liveVars>>
    /\ UNCHANGED <<themeVars, viewerVars>>

\* handleEditSubmit() up to its await of PUT /api/slides/<name>
handleEditSubmit ==
    /\ DevPage
    /\ editModalOpen
    /\ InFlight < MaxInFlight
    /\ IF currentEditingSlide = NoDeck
       THEN UNCHANGED editReqs
       ELSE /\ currentEditingSlide \notin editReqs
            /\ editReqs' = editReqs \cup {currentEditingSlide}
    /\ idxEv' = [IdxEvent("submitEdit") EXCEPT !.op = "edit", !.deck = currentEditingSlide]
    /\ UNCHANGED <<idxPhase, isDevMode, isImporting, srvDecks, listDom, importBtnShown,
                   importDom, editDom, imports, deleteReqs, listLoads, liveVars>>
    /\ UNCHANGED <<themeVars, viewerVars>>

\* handleEditSubmit() once the PUT settled: close and reload, or alert
EditResponse(d, ok) ==
    /\ DevPage
    /\ d \in editReqs
    /\ ok => d \in srvDecks
    /\ editReqs' = editReqs \ {d}
    /\ IF ok
       THEN /\ editModalOpen' = FALSE
            /\ currentEditingSlide' = NoDeck
            /\ listLoads' = [listLoads EXCEPT !.reload = @ + 1]
       ELSE UNCHANGED <<editDom, listLoads>>
    /\ idxEv' = [IdxEvent("editSettled") EXCEPT !.op = "edit", !.deck = d,
                                                !.failed = ~ok, !.alert = ~ok]
    /\ UNCHANGED <<idxPhase, isDevMode, isImporting, srvDecks, listDom, importBtnShown,
                   importDom, imports, deleteReqs, liveVars>>
    /\ UNCHANGED <<themeVars, viewerVars>>

\* ---- delete ----
\* Mutant of DeleteProceeds: the answer to confirm() is ignored.
DeleteProceedsAlways(confirmed) == TRUE

\* the guard `if (!confirm(...)) return`
DeleteProceeds(confirmed) == confirmed

\* handleDeleteSlide(slide) from a card's delete button, up to its await of
\* DELETE /api/slides/<name>; `confirmed` is the answer to confirm()
handleDeleteSlide(d, confirmed) ==
    /\ DevPage
    /\ CardsShown
    /\ d \in rendered
    /\ IF DeleteProceeds(confirmed)
       THEN /\ InFlight < MaxInFlight
            /\ d \notin deleteReqs
            /\ deleteReqs' = deleteReqs \cup {d}
       ELSE UNCHANGED deleteReqs
    /\ idxEv' = [IdxEvent("deleteClick") EXCEPT !.op = "delete", !.deck = d,
                                                !.confirmed = confirmed]
    /\ UNCHANGED <<idxPhase, isDevMode, isImporting, srvDecks, listDom, importBtnShown,
                   importDom, editDom, imports, editReqs, listLoads, liveVars>>
    /\ UNCHANGED <<themeVars, viewerVars>>

\* handleDeleteSlide() once the DELETE settled: reload, or alert
DeleteResponse(d, ok) ==
    /\ DevPage
    /\ d \in deleteReqs
    /\ ok => d \in srvDecks
    /\ deleteReqs' = deleteReqs \ {d}
    /\ IF ok
       THEN /\ srvDecks' = srvDecks \ {d}
            /\ listLoads' = [listLoads EXCEPT !.reload = @ + 1]
       ELSE UNCHANGED <<srvDecks, listLoads>>
    /\ idxEv' = [IdxEvent("deleteSettled") EXCEPT !.op = "delete", !.deck = d,
                                                  !.failed = ~ok, !.alert = ~ok]
    /\ UNCHANGED <<idxPhase, isDevMode, isImporting, listDom, importBtnShown,
                   importDom, editDom, imports, editReqs, liveVars>>
    /\ UNCHANGED <<themeVars, viewerVars>>

\* ---- live reload ----
MessageTypes == {"connected", "reload", "other", "malformed"}

\* Mutant of ReloadSkipped: a reload message is never skipped.
ReloadSkippedNever(importing) == FALSE

\* the guard `if (this.isImporting) return` of the reload message
ReloadSkipped(importing) == importing

\* eventSource.onmessage
EsMessage(type) ==
    /\ DevPage
    /\ esOpen > 0
    /\ IF type = "reload" /\ ~ReloadSkipped(isImporting)
       THEN /\ reloadTimers < MaxReloadTimers
            /\ reloadTimers' = reloadTimers + 1
       ELSE UNCHANGED reloadTimers
    /\ idxEv' = [IdxEvent("esMessage") EXCEPT !.op = type,
                                              !.posting = Cardinality(PostingImports)]
    /\ UNCHANGED <<idxPhase, isDevMode, isImporting, currentEditingSlide, srvDecks,
                   listDom, importBtnShown, importDom, editModalOpen, imports, editReqs,
                   deleteReqs, listLoads, esOpen, reconnectTimers, liveReloadOn>>
    /\ UNCHANGED <<themeVars, viewerVars>>

\* the 100 ms timer fires: window.location.reload() discards the page with
\* whatever it had under way
ReloadTimerFires ==
    /\ DevPage
    /\ reloadTimers > 0
    /\ idxPhase' = "reloaded"
    /\ idxEv' = [IdxEvent("pageReload") EXCEPT !.posting = Cardinality(PostingImports)]
    /\ UNCHANGED <<isDevMode, isImporting, currentEditingSlide, srvDecks, listDom,
                   importBtnShown, importDom, editModalOpen, imports, editReqs,
                   deleteReqs, listLoads, liveVars>>
    /\ UNCHANGED <<themeVars, viewerVars>>

\* Mutant of ReconnectScheduled: onerror never schedules a reconnect.
ReconnectScheduledNever(dev) == FALSE

\* the guard `if (this.isDevMode)` around onerror's setTimeout
ReconnectScheduled(dev) == dev

\* Mutant of ChannelsAfterError: the failed channel is left open.
ChannelsAfterErrorLeftOpen(n) == n

\* eventSource.close() in onerror
ChannelsAfterError(n) == n - 1

\* eventSource.onerror: close the channel, schedule a reconnect
EsError ==
    /\ DevPage
    /\ esOpen > 0
    /\ reconnectTimers < MaxPending
    /\ esOpen' = ChannelsAfterError(esOpen)
    /\ reconnectTimers' = IF ReconnectScheduled(isDevMode) THEN reconnectTimers + 1
                          ELSE reconnectTimers
    /\ idxEv' = IdxEvent("esError")
    /\ UNCHANGED <<idxPhase, isDevMode, isImporting, currentEditingSlide, srvDecks,
                   listDom, importBtnShown, importDom, editModalOpen, imports, editReqs,
                   deleteReqs, listLoads, reloadTimers, liveReloadOn>>
    /\ UNCHANGED <<themeVars, viewerVars>>

\* the 3 s timer fires: connectLiveReload()
ReconnectTimerFires ==
    /\ DevPage
    /\ reconnectTimers > 0
    /\ esOpen < MaxPending
    /\ reconnectTimers' = reconnectTimers - 1
    /\ esOpen' = IF isDevMode THEN esOpen + 1 ELSE esOpen
    /\ idxEv' = IdxEvent("reconnect")
    /\ UNCHANGED <<idxPhase, isDevMode, isImporting, currentEditingSlide, srvDecks,
                   listDom, importBtnShown, importDom, editModalOpen, imports, editReqs,
                   deleteReqs, listLoads, reloadTimers, liveReloadOn>>
    /\ UNCHANGED <<themeVars, viewerVars>>

(***************************************************************************)
(*                           Specifications                                *)
(***************************************************************************)

\* A page with only the theme controller.
InitThemePage == InitTheme /\ ParkedViewer /\ ParkedIndex
SpecTheme == InitThemePage /\ [][NextTheme]_vars

\* The viewer without its modals, opened in slide mode on a wide viewport:
\* loading, keys, wheel, navigation areas, progress bar, history navigation,
\* the mode toggle and scrolling.
InitViewerPage ==
    /\ ParkedTheme
    /\ InitViewerOn(PageValues, {"none"}, {"none"}, {FALSE}, {SlideH})
    /\ ParkedIndex
NextViewer ==
    \/ \E n \in 1..MaxPages : MetadataLoaded(n, "webp", {})
    \/ MetadataFailed
    \/ \E k \in Keys : handleKeyPress(k)
    \/ \E deltaY \in {-1, 0, 1} : handleWheel(deltaY)
    \/ WheelTimerFires
    \/ \E dir \in {-1, 1} : NavAreaClick(dir)
    \/ \E x \in 0..BarWidth : handleProgressClick(x)
    \/ \E p \in PageValues : Popstate(p)
    \/ \E laid \in SUBSET (1..MaxPages) : toggleScrollMode(laid)
    \/ \E top \in 0..(MaxPages * SlideH) : ScrollEvent(top)
SpecViewer == InitViewerPage /\ [][NextViewer]_vars

\* The viewer with its two modes and its two modals: the mode toggle, scrolling,
\* the overview and share modals, and the keys and wheel events that can
\* arrive in each of them.
InitModesPage ==
    /\ ParkedTheme
    /\ InitViewerOn({NoParam, 2}, {"none", "scroll"}, {"none"}, {FALSE}, {SlideH})
    /\ ParkedIndex
NextModes ==
    \/ \E n \in {MaxPages} : \E laid \in FreshLayouts(n) : MetadataLoaded(n, "webp", laid)
    \/ \E k \in Keys : handleKeyPress(k)
    \/ \E deltaY \in {-1, 1} : handleWheel(deltaY)
    \/ WheelOnModal
    \/ WheelTimerFires
    \/ \E laid \in SUBSET (1..MaxPages) : toggleScrollMode(laid)
    \/ \E top \in 0..(MaxPages * SlideH) : ScrollEvent(top)
    \/ openOverviewModal
    \/ closeOverviewModal
    \/ \E i \in 1..MaxPages : OverviewSlideClick(i)
    \/ openShareModal
    \/ closeShareModal
SpecModes == InitModesPage /\ [][NextModes]_vars

\* The viewer's scroll mode on short and tall viewports, with images that get
\* their height late: the mode toggle, scrolling, and arrow keys.
InitScrollPage ==
    /\ ParkedTheme
    /\ InitViewerOn({NoParam, 2}, {"none", "scroll"}, {"none"}, {FALSE}, ViewHeights)
    /\ ParkedIndex
NextScroll ==
    \/ \E n \in 1..MaxPages : \E laid \in FreshLayouts(n) : MetadataLoaded(n, "webp", laid)
    \/ \E k \in {"ArrowLeft", "ArrowRight"} : handleKeyPress(k)
    \/ \E laid \in SUBSET (1..MaxPages) : toggleScrollMode(laid)
    \/ \E top \in 0..(MaxPages * SlideH) : ScrollEvent(top)
    \/ \E i \in 1..MaxPages : ScrollImageLaidOut(i)
SpecScroll == InitScrollPage /\ [][NextScroll]_vars

\* The viewer's share modal: building the link for either mode from slide or
\* scroll mode, and opening the link that was built.
InitSharePage ==
    /\ ParkedTheme
    /\ InitViewerOn({NoParam, 2}, {"none", "scroll"}, {"none", "list"}, BOOLEAN, {SlideH})
    /\ ParkedIndex
NextShare ==
    \/ \E n \in {MaxPages} : \E laid \in FreshLayouts(n) : MetadataLoaded(n, "webp", laid)
    \/ \E k \in {"ArrowRight", "Escape"} : handleKeyPress(k)
    \/ \E laid \in SUBSET (1..MaxPages) : toggleScrollMode(laid)
    \/ openShareModal
    \/ \E radio \in {"slide", "scroll"} : ShareModeChange(radio)
    \/ closeShareModal
    \/ \E narrowNew \in BOOLEAN : OpenShareLink(narrowNew)
SpecShare == InitSharePage /\ [][NextShare]_vars

\* The viewer's slot images: navigation by keys and history, and the load and
\* error events of the three slots in any order. An outstanding image request
\* ends in load or error.
InitImagesPage ==
    /\ ParkedTheme
    /\ InitViewerOn({NoParam, 2, NaN}, {"none"}, {"none"}, {FALSE}, {SlideH})
    /\ ParkedIndex
NextImages ==
    \/ \E n \in 1..MaxPages : MetadataLoaded(n, "webp", {})
    \/ MetadataFailed
    \/ \E k \in {"ArrowLeft", "ArrowRight", "Home", "End"} : handleKeyPress(k)
    \/ \E p \in {1, MaxPages} : Popstate(p)
    \/ \E x \in {"prev", "cur", "next"}, kind \in {"load", "error"} : SlotSettled(x, kind)
SpecImages ==
    /\ InitImagesPage
    /\ [][NextImages]_vars
    /\ \A x \in {"prev", "cur", "next"} : WF_vars(\E kind \in {"load", "error"} : SlotSettled(x, kind))

\* The viewer's chrome controls: pointer movements, the passing of time and the
\* timeouts of showControls(). Time passes, and a timeout that has come due
\* fires.
InitControlsPage ==
    /\ ParkedTheme
    /\ InitViewerOn({NoParam, 2}, {"none"}, {"none", "list"}, {FALSE}, {SlideH})
    /\ ParkedIndex
NextControls ==
    \/ \E n \in 1..MaxPages, fmt \in {"none", "webp", "png"} : MetadataLoaded(n, fmt, {})
    \/ MouseMove
    \/ Tick
    \/ HideControlsTimerFires
    \/ \E k \in {"ArrowLeft", "ArrowRight"} : handleKeyPress(k)
SpecControls ==
    /\ InitControlsPage
    /\ [][NextControls]_vars
    /\ WF_vars(Tick)
    /\ WF_vars(HideControlsTimerFires)

\* A viewer and a slide index of the development server open side by side:
\* pointer movements, wheel events and time on the viewer, channel errors
\* and reconnections on the index.
InitTimersPages ==
    /\ ParkedTheme
    /\ InitViewerOn({NoParam}, {"none"}, {"none"}, {FALSE}, {SlideH})
    /\ InitIndex
NextTimers ==
    \/ \E n \in {MaxPages} : MetadataLoaded(n, "webp", {})
    \/ MouseMove
    \/ Tick
    \/ HideControlsTimerFires
    \/ \E deltaY \in {-1, 1} : handleWheel(deltaY)
    \/ WheelTimerFires
    \/ \E probe \in {"ok", "fail"}, embedded \in {NoData} : ProbeDone(probe, embedded)
    \/ \E result \in {"ok", "fail"}, staticList \in SUBSET {1} :
         InitLoadDone(result, staticList)
    \/ EsError
    \/ ReconnectTimerFires
SpecTimers == InitTimersPages /\ [][NextTimers]_vars

\* The slide index of the development server: list loading, imports and the
\* live-reload channel.
InitIndexPage == ParkedTheme /\ ParkedViewer /\ InitIndex
NextIndex ==
    \/ \E probe \in {"ok", "fail"}, embedded \in {NoData} : ProbeDone(probe, embedded)
    \/ \E result \in {"ok", "fail"}, staticList \in SUBSET {1} :
         InitLoadDone(result, staticList)
    \/ \E result \in {"ok", "fail"} : ReloadDone(result)
    \/ openImportModal
    \/ closeImportModal
    \/ SubmitImport
    \/ \E slot \in 1..MaxImports, outcome \in {"ok", "lost", "error"} :
         ImportResponse(slot, outcome)
    \/ \E slot \in 1..MaxImports : ImportOkTimer(slot)
    \/ \E slot \in 1..MaxImports : ImportFailTimer(slot)
    \/ \E slot \in 1..MaxImports, result \in {"ok", "fail"} : ImportRepollDone(slot, result)
    \/ \E type \in MessageTypes : EsMessage(type)
    \/ ReloadTimerFires
    \/ EsError
    \/ ReconnectTimerFires
SpecIndex == InitIndexPage /\ [][NextIndex]_vars

\* The slide index of the development server without live-reload traffic:
\* list loading, imports, edits and deletions.
NextManage ==
    \/ \E probe \in {"ok", "fail"}, embedded \in {NoData} : ProbeDone(probe, embedded)
    \/ \E result \in {"ok", "fail"}, staticList \in SUBSET {1} :
         InitLoadDone(result, staticList)
    \/ \E result \in {"ok", "fail"} : ReloadDone(result)
    \/ openImportModal
    \/ closeImportModal
    \/ SubmitImport
    \/ \E slot \in 1..MaxImports, outcome \in {"ok", "lost", "error"} :
         ImportResponse(slot, outcome)
    \/ \E slot \in 1..MaxImports : ImportOkTimer(slot)
    \/ \E slot \in 1..MaxImports : ImportFailTimer(slot)
    \/ \E slot \in 1..MaxImports, result \in {"ok", "fail"} : ImportRepollDone(slot, result)
    \/ \E d \in Decks : handleEditSlide(d)
    \/ closeEditModal
    \/ handleEditSubmit
    \/ \E d \in Decks, ok \in BOOLEAN : EditResponse(d, ok)
    \/ \E d \in Decks, confirmed \in BOOLEAN : handleDeleteSlide(d, confirmed)
    \/ \E d \in Decks, ok \in BOOLEAN : DeleteResponse(d, ok)
SpecManage == InitIndexPage /\ [][NextManage]_vars

\* The live-reload channel of the slide index: messages, errors, the 3 s
\* reconnect timer and the 100 ms reload timer. A pending timer fires unless
\* the page is discarded first.
NextLive ==
    \/ \E probe \in {"ok", "fail"}, embedded \in {NoData} \cup SUBSET Decks :
         ProbeDone(probe, embedded)
    \/ \E result \in {"ok", "fail"}, staticList \in SUBSET Decks :
         InitLoadDone(result, staticList)
    \/ openImportModal
    \/ closeImportModal
    \/ \E type \in MessageTypes : EsMessage(type)
    \/ ReloadTimerFires
    \/ EsError
    \/ ReconnectTimerFires
SpecLive == InitIndexPage /\ [][NextLive]_vars /\ WF_vars(ReconnectTimerFires)

(***************************************************************************)
(*                         Claims: the viewer                              *)
(***************************************************************************)

\* the target of the navigation request just handled is an integer outside
\* 1..totalSlides
OutOfRangeTarget(r, total) == r.n # NaN /\ (r.n < 1 \/ r.n > total)

\* C1: in every state of the viewer after the deck metadata has loaded,
\* 1 <= currentSlide <= totalSlides.
C1_SlideInRange ==
    Ready => currentSlide # NaN /\ 1 <= currentSlide /\ currentSlide <= totalSlides

\* C4: while the viewer is in scroll mode, or the overview or share modal is
\* open, no key press and no wheel event changes currentSlide.
C4_NoNavigationWhenSuppressed ==
    [][(scrollMode \/ overviewOpen \/ shareOpen) /\ ev' \in {"keydown", "wheel"}
         => currentSlide' = currentSlide]_vars

\* C5: after every change of currentSlide the URL `page` value equals
\* currentSlide.
C5_UrlFollowsSlide ==
    [][Ready /\ currentSlide' # currentSlide => urlPage' = currentSlide']_vars

\* C6: goToSlide(n) with 1 <= n <= totalSlides yields currentSlide = n, a
\* progress width of n / totalSlides * 100 percent and URL `page` = n.
C6_GoToSlideInRange ==
    [][req'.op = "goTo" /\ req'.n \in 1..totalSlides
         => /\ currentSlide' = req'.n
            /\ progress' = <<req'.n * 100, totalSlides>>
            /\ urlPage' = req'.n]_vars

\* C6 witness: goToSlide(2) was called on a three-slide deck, and slide, URL
\* and progress bar are on slide 2.
C6_Witness ==
    /\ req = Req("goTo", 2)
    /\ totalSlides = 3
    /\ currentSlide = 2
    /\ urlPage = 2
    /\ progress = <<200, 3>>

\* C7 as stated: from a slide of the deck, previousSlide at slide 1, nextSlide
\* at the last slide and any goToSlide or popstate request with an
\* out-of-range page leave currentSlide unchanged.
C7_OutOfRangeIsNoOp ==
    [][/\ Ready
       /\ currentSlide \in 1..totalSlides
       /\ \/ req'.op = "prev" /\ currentSlide = 1
          \/ req'.op = "next" /\ currentSlide = totalSlides
          \/ req'.op \in {"goTo", "show"} /\ OutOfRangeTarget(req', totalSlides)
       => currentSlide' = currentSlide]_vars

\* C7 amended: previousSlide at slide 1 and nextSlide at the last slide leave
\* currentSlide unchanged; a goToSlide or popstate request with a page below 1
\* lands on slide 1 and one with a page above totalSlides lands on the last
\* slide (clamped, never wrapped).
C7_EdgesClampNeverWrap ==
    [][Ready =>
         /\ req'.op = "prev" /\ currentSlide = 1 => currentSlide' = 1
         /\ req'.op = "next" /\ currentSlide = totalSlides => currentSlide' = totalSlides
         /\ req'.op \in {"goTo", "show"} /\ req'.n # NaN /\ req'.n < 1
              => currentSlide' = 1
         /\ req'.op \in {"goTo", "show"} /\ req'.n # NaN /\ req'.n > totalSlides
              => currentSlide' = totalSlides]_vars

\* C7 witness: a popstate asked for a page above the deck's last slide while
\* the viewer showed an earlier slide, and the viewer landed on the last slide.
C7_Witness ==
    /\ ev = "popstate"
    /\ req.op = "show"
    /\ req.n > totalSlides
    /\ totalSlides = 3
    /\ currentSlide = totalSlides

(***************************************************************************)
(*                       Claims: the slide index                           *)
(***************************************************************************)

\* C2: the page is never reloaded by live reload while an import request is
\* in flight.
C2_NoReloadDuringImport ==
    idxEv.type = "pageReload" => idxEv.posting = 0

\* C3: every failed import, edit or delete ends with an alert.
C3_FailuresAlert ==
    idxEv.type \in {"importSettled", "editSettled", "deleteSettled"} /\ idxEv.failed
        => idxEv.alert

\* C10: when a failed import's re-fetch settles, the error alert is shown
\* exactly when the re-fetched list shows no deck that was absent before, and
\* isImporting ends false.
C10_RepollDecidesByNewDeck ==
    idxEv.type = "importSettled" => (idxEv.alert <=> ~idxEv.newDeck) /\ ~isImporting

\* C11: in dev mode every channel error closes the channel and schedules a
\* reconnect, and as long as the page lives every closed channel is
\* eventually followed by a new connection, however many errors came before;
\* outside dev mode there is no channel and no reconnect.
C11_ErrorsReconnectForever ==
    /\ [](~isDevMode => esOpen = 0 /\ reconnectTimers = 0)
    /\ [][idxEv'.type = "esError"
            => esOpen' = esOpen - 1 /\ reconnectTimers' = reconnectTimers + 1]_vars
    /\ [][idxEv'.type = "reconnect" => esOpen' = esOpen + 1]_vars
    /\ (isDevMode /\ esOpen = 0 ~> esOpen > 0 \/ idxPhase = "reloaded")

\* C11 witness: the channel failed, the reconnect timer fired and a new
\* channel is open.
C11_Witness ==
    /\ idxEv.type = "reconnect"
    /\ isDevMode
    /\ esOpen = 1
    /\ reconnectTimers = 0

\* C12: dev mode is entered exactly by a successful probe of /api/slides, and
\* in static mode no import, edit or delete request is under way, no
\* management modal is open and no live-reload channel or reconnect exists.
C12_StaticModeIsReadOnly ==
    /\ [][idxEv'.type = "probeDone" => (isDevMode' <=> ~idxEv'.failed)]_vars
    /\ [][isDevMode' # isDevMode => idxEv'.type = "probeDone"]_vars
    /\ [](~isDevMode =>
            /\ ActiveImports = {}
            /\ editReqs = {}
            /\ deleteReqs = {}
            /\ listLoads.reload = 0
            /\ NoIndexModal
            /\ ~importBtnShown
            /\ esOpen = 0
            /\ reconnectTimers = 0)

\* C12 witness: the probe failed and the static list is on screen.
C12_Witness ==
    /\ idxPhase = "ready"
    /\ ~isDevMode
    /\ rendered = {1}
    /\ containerShown

\* C13: in static mode the list rendered at load is the embedded data's slides
\* when the data exists (no fetch is made), otherwise the slides of
\* slides-index.json when its fetch succeeded, otherwise the empty list; an
\* empty list shows the empty state and hides the container, a non-empty one
\* the reverse, so once loaded exactly one of the two is visible.
C13_StaticFallbackAndEmptyState ==
    /\ idxEv.type = "probeDone" /\ ~isDevMode /\ idxEv.data # NoData
         => idxEv.list = idxEv.data /\ idxPhase = "ready" /\ listLoads.init = 0
    /\ idxEv.type = "probeDone" /\ ~isDevMode /\ idxEv.data = NoData
         => idxEv.list = NoData /\ idxPhase = "loading" /\ listLoads.init = 1
    /\ idxEv.type = "initLoadDone" /\ ~isDevMode
         => idxEv.list = (IF idxEv.failed THEN {} ELSE idxEv.data)
    /\ idxEv.type \in {"probeDone", "initLoadDone"} /\ idxEv.list # NoData
         => IF idxEv.list = {}
            THEN emptyShown /\ ~containerShown
            ELSE containerShown /\ ~emptyShown /\ rendered = idxEv.list
    /\ idxPhase = "ready" => emptyShown # containerShown

\* C13 witness: static mode without embedded data, the fetch of
\* slides-index.json failed and the empty state is shown.
C13_Witness ==
    /\ idxEv.type = "initLoadDone"
    /\ ~isDevMode
    /\ idxEv.failed
    /\ emptyShown
    /\ ~containerShown

\* the viewer's page shows what it showed right after construction: no image,
\* no progress, no controls, no title
ViewerUninitialised ==
    /\ slots = [prev |-> InitialSlot, cur |-> InitialSlot, next |-> InitialSlot]
    /\ ~spinner
    /\ progress = <<0, 0>>
    /\ docTitle = 0
    /\ ~controlsVisible
    /\ ~hideControlsTimer

\* C14 (viewer): a failed metadata fetch leaves the viewer in a visible state,
\* not in the uninitialised one.
C14_MetadataFailureIsVisible ==
    vPhase = "failed" => ~ViewerUninitialised

\* C14 (index): a listing failure at load ends in the empty-state view.
C14_ListingFailureShowsEmptyState ==
    idxEv.type = "initLoadDone" /\ idxEv.failed => emptyShown /\ ~containerShown

C16_WheelThrottle ==
    /\ [][ev' = "wheel" /\ wheelThrottleTimer
            => req' = NoReq /\ wheelThrottleTimer' /\ UNCHANGED showVars]_vars
    /\ [][ev' = "wheel" /\ req'.op \in {"prev", "next"}
            => ~wheelThrottleTimer /\ wheelThrottleTimer']_vars
    /\ [][wheelThrottleTimer /\ ~wheelThrottleTimer' => ev' = "wheelTimer"]_vars

\* C16 witness: a wheel event moved a three-slide deck to its second slide
\* and the timer it started is still pending.
C16_Witness ==
    /\ ev = "wheel"
    /\ req.op = "next"
    /\ wheelThrottleTimer
    /\ currentSlide = 2
    /\ totalSlides = 3

\* C17: leaving scroll mode sets currentSlide to the scroll image whose
\* vertical centre is closest to the viewport's centre, the lowest index among
\* equally close ones, and the current slot, the progress bar, the title and
\* the URL `page` show that slide.
C17_ExitCommitsClosestSlide ==
    [][ev' = "toggleScrollMode" /\ scrollMode /\ ~scrollMode'
         => LET c == currentSlide'
                d(i) == Distance2(i, scrollLaidOut, scrollTop, viewH)
            IN  /\ c \in 1..scrollEls
                /\ \A j \in 1..scrollEls : d(c) <= d(j)
                /\ \A j \in 1..(c - 1) : d(j) > d(c)
                /\ slots'.cur.src = ImageAt(slideImages, c)
                /\ progress' = <<c * 100, totalSlides>>
                /\ docTitle' = c
                /\ urlPage' = c]_vars

\* C17 witness: scroll mode was left with the third image closest to the
\* centre, and the paged view and the URL are on slide 3.
C17_Witness ==
    /\ ev = "toggleScrollMode"
    /\ ~scrollMode
    /\ req = Req("show", 3)
    /\ currentSlide = 3
    /\ urlPage = 3
    /\ slots.cur.src = ImageAt(slideImages, 3)

\* C18: a share link that was built has no `from` parameter and has
\* mode=scroll exactly when the scroll option is selected, and the embed code
\* carries the same address; a viewer opened on the link gets that mode
\* parameter, and a viewer starts in scroll mode exactly when its address has
\* mode=scroll or its viewport is narrow.
C18_ShareRoundTrip ==
    /\ [](shareLink # NoShareLink
            => /\ shareLink.from = "none"
               /\ shareLink.mode = "scroll" <=> shareRadio = "scroll"
               /\ shareLink.mode \in {"scroll", "none"}
               /\ shareEmbed = shareLink)
    /\ [][ev' = "openShareLink"
            => /\ urlFrom' = "none"
               /\ urlMode' = "scroll" <=> shareRadio = "scroll"]_vars
    /\ [][ev' = "metadataLoaded"
            => (scrollMode' <=> (narrow \/ urlMode = "scroll"))]_vars

\* C18 witness: a link built on slide 3 with the scroll option was opened on
\* a wide viewport, and the new viewer started in scroll mode on slide 3.
C18_Witness ==
    /\ ev = "metadataLoaded"
    /\ urlPage = 3
    /\ currentSlide = 3
    /\ ~narrow
    /\ urlMode = "scroll"
    /\ urlFrom = "none"
    /\ scrollMode
    /\ ~closeShown

\* the three slots and the two hit-areas agree with slide c of the deck
SlotsConsistent(c) ==
    /\ c \in 1..totalSlides
    /\ slots.cur.src = slideImages[c]
    /\ IF c > 1
       THEN slots.prev.display = "block" /\ slots.prev.src = slideImages[c - 1]
       ELSE slots.prev.display = "none"
    /\ IF c < totalSlides
       THEN slots.next.display = "block" /\ slots.next.src = slideImages[c + 1]
       ELSE slots.next.display = "none"
    /\ navPrev = (IF c > 1 THEN "block" ELSE "none")
    /\ navNext = (IF c < totalSlides THEN "block" ELSE "none")

\* C19: in paged mode, once showSlide has run, the slots and the hit-areas
\* are consistent with currentSlide.
C19_SlotsFollowSlide ==
    Ready /\ ~scrollMode => SlotsConsistent(currentSlide)

\* C19 for a numeric current slide: the same, leaving out C1's NaN.
C19_SlotsFollowNumericSlide ==
    Ready /\ ~scrollMode /\ currentSlide # NaN => SlotsConsistent(currentSlide)

\* C20: every showSlide shows the loading indicator; the indicator is shown
\* whenever a displayed slot is still loading; it is hidden only by a load or
\* error event that leaves no slot loading; and, every outstanding image
\* request ending in load or error, a shown indicator is eventually hidden
\* unless another navigation comes first.
C20_LoadingIndicator ==
    /\ [][req'.op \in {"goTo", "show"} \/ currentSlide' # currentSlide => spinner']_vars
    /\ [](\A x \in {"prev", "cur", "next"} :
             slots[x].loading /\ slots[x].display # "none" => spinner)
    /\ [][spinner /\ ~spinner' => ev' \in {"load", "error"} /\ ~AnyLoading(slots')]_vars
    /\ (spinner ~> (~spinner \/ req.op # "none"))

\* C20 witness: after a navigation on a three-slide deck all three slots have
\* reported, the last one with an error, and the indicator is hidden.
C20_Witness ==
    /\ ev = "error"
    /\ currentSlide = 2
    /\ totalSlides = 3
    /\ slots.prev.display = "block"
    /\ slots.next.display = "block"
    /\ ~AnyLoading(slots)
    /\ ~spinner

\* C21: every pointer movement shows the controls and leaves exactly one
\* timeout pending, with the full delay; the controls are hidden only by a
\* timeout and only when HideDelay seconds have passed since the last
\* movement; and visible controls are eventually hidden unless the pointer
\* moves again.
C21_ControlsHideAfterInactivity ==
    /\ [][ev' = "mousemove" => controlsVisible' /\ hideTimers' = <<HideDelay>>]_vars
    /\ [][ev' = "hideTimer" \/ (controlsVisible /\ ~controlsVisible')
            => ev' = "hideTimer" /\ sinceMove = HideDelay]_vars
    /\ (controlsVisible ~> (~controlsVisible \/ ev = "mousemove"))

\* C21 witness: two seconds after a pointer movement the controls are still
\* visible and the restarted timeout has one second left.
C21_Witness ==
    /\ ev = "tick"
    /\ controlsVisible
    /\ sinceMove = 2
    /\ hideTimers = <<1>>

\* t is the page max(1, min(total, ceil(f * total))) for the fraction
\* f = x / width, 0 <= f <= 1, said without the code's arithmetic
IsCeilPage(t, x, width, total) ==
    /\ t \in 1..total
    /\ x = 0 => t = 1
    /\ x > 0 => (t - 1) * width < x * total /\ x * total <= t * width

\* C22: a progress-bar click at fraction f = x / width goes to page
\* max(1, min(totalSlides, ceil(f * totalSlides))): the viewer is on that page
\* after the click, and the computation gives that page for every fraction in
\* hundredths on decks of 1 to 10 pages, with f = 0 giving page 1, f = 1 the
\* last page and f = 0.42 on 10 pages giving page 5.
C22_ProgressClickTarget ==
    /\ ev = "progressClick" =>
          /\ currentSlide = req.n
          /\ urlPage = req.n
          /\ \E x \in 0..BarWidth : IsCeilPage(currentSlide, x, BarWidth, totalSlides)
    /\ \A total \in 1..10 :
          /\ \A x \in 0..100 : IsCeilPage(ProgressTarget(x, 100, total), x, 100, total)
          /\ ProgressTarget(0, 100, total) = 1
          /\ ProgressTarget(100, 100, total) = total
    /\ ProgressTarget(42, 100, 10) = 5

\* C22 witness: a click in the middle of the bar of a three-slide deck went
\* from the first slide to the second.
C22_Witness ==
    /\ ev = "progressClick"
    /\ totalSlides = 3
    /\ req.n = ProgressTarget(2, BarWidth, 3)
    /\ currentSlide = 2

RECURSIVE DigitsValue(_)
\* the number a sequence of decimal digits writes
DigitsValue(digits) ==
    IF digits = <<>> THEN 0
    ELSE 10 * DigitsValue(SubSeq(digits, 1, Len(digits) - 1)) + digits[Len(digits)]

\* images is the list of k image addresses, the i-th numbered i in three
\* digits (more from 1000 on) and ending in the format, webp when none is given
IsImageList(images, k, fmt) ==
    /\ Len(images) = k
    /\ \A i \in 1..k :
          /\ DigitsValue(images[i].num) = i
          /\ Len(images[i].num) = IF i < 1000 THEN 3 ELSE Len(ToDigits(i))
          /\ images[i].format = IF fmt = "none" THEN "webp" ELSE fmt

\* C23: metadata with pageCount = k gives exactly k image addresses, the i-th
\* numbered i zero-padded to three digits with the metadata's format, webp
\* when there is none; and a viewer opened without `page` starts at page 1 and
\* has page=1 in its address once initialised.
C23_ImageListAndDefaultPage ==
    /\ [](vPhase = "ready" =>
            \E fmt \in {"none", "webp", "png"} : IsImageList(slideImages, totalSlides, fmt))
    /\ [](\A k \in {0, 1, 9, 10, 11, 99, 100, 101}, fmt \in {"none", "webp", "png"} :
            IsImageList(MakeSlideImages(k, fmt), k, fmt))
    /\ [](vPhase = "loading" /\ urlPage = NoParam => currentSlide = 1)
    /\ [][urlPage = NoParam /\ ev' = "metadataLoaded"
            => currentSlide' = 1 /\ urlPage' = 1]_vars

\* C23 witness: a viewer opened without `page` on a three-page deck whose
\* metadata names no format is initialised, with three webp addresses.
C23_Witness ==
    /\ ev = "metadataLoaded"
    /\ totalSlides = 3
    /\ IsImageList(slideImages, 3, "none")
    /\ currentSlide = 1
    /\ urlPage = 1
    /\ hideTimers = <<HideDelay>>

\* C24: in paged mode no scroll listener is registered on the scroll
\* container, and at most one is registered at any time.
C24_ExitRemovesScrollListener ==
    /\ vPhase = "ready" /\ ~scrollMode => scrollListeners = 0
    /\ scrollListeners <= 1

\* C25: at most one controls-hide timeout, one wheel-throttle timeout and one
\* reconnect timeout are pending, and at most one live-reload channel is open.
C25_OneTimerOfEachKind ==
    /\ Len(hideTimers) <= 1
    /\ wheelTimers <= 1
    /\ reconnectTimers <= 1
    /\ esOpen <= 1

\* C25 witness: right after a pointer movement that followed the initial
\* showControls(), with the wheel throttle running and a reconnection
\* scheduled by a channel error, one timeout of each kind is pending.
C25_Witness ==
    /\ ev = "mousemove"
    /\ hideTimers = <<HideDelay>>
    /\ wheelThrottleTimer
    /\ wheelTimers = 1
    /\ idxEv.type = "esError"
    /\ reconnectTimers = 1
    /\ esOpen = 0

\* C26: isImporting is true whenever an import request is outstanding or the
\* re-fetch of a failed import is still to come or under way.
C26_ImportingWhileOutstanding ==
    (\E slot \in 1..MaxImports : imports[slot].st \in {"posting", "failTimer", "repoll"})
        => isImporting

\* C27: entering scroll mode from paged mode at slide n, 1 <= n <= totalSlides,
\* and toggling straight back leaves the viewer at slide n.
C27_ModeRoundTrip ==
    [][/\ ev = "toggleScrollMode"
       /\ scrollMode
       /\ currentSlide \in 1..totalSlides
       /\ ev' = "toggleScrollMode"
       => currentSlide' = currentSlide]_vars

\* C28: when the share modal is opened or the share option changed, the share
\* link's `page` is the viewer's current slide and the embed snippet's src is
\* the share link.
C28_ShareLinkPageIsCurrentSlide ==
    [][ev' \in {"openShare", "shareMode"}
         => shareLink'.page = currentSlide' /\ shareEmbed' = shareLink']_vars

\* C29: after construction and after every toggle() and OS preference change
\* the data-theme attribute equals currentTheme, currentTheme is "dark" or
\* "light", a persisted value equals currentTheme, and a persisted value is
\* never removed.
C29_ThemeStateConsistent ==
    /\ dataTheme = currentTheme
    /\ currentTheme \in {THEME_DARK, THEME_LIGHT}
    /\ stored # NoTheme => stored = currentTheme
    /\ \A i \in 1..Len(themeLog) :
          /\ themeLog[i].data = themeLog[i].theme
          /\ themeLog[i].stored # NoTheme => themeLog[i].stored = themeLog[i].theme
          /\ i > 1 /\ themeLog[i-1].stored # NoTheme => themeLog[i].stored # NoTheme

\* C29 witness: a page that started with nothing persisted saw an OS change,
\* then a toggle, then another OS change.
C29_Witness ==
    /\ themeLog[1].stored = NoTheme
    /\ \E i \in 2..Len(themeLog) : \E j \in 2..Len(themeLog) : \E k \in 2..Len(themeLog) :
          /\ i < j /\ j < k
          /\ themeLog[i].ev = "osChange"
          /\ themeLog[j].ev = "toggle"
          /\ themeLog[k].ev = "osChange"
    /\ stored = currentTheme

====
